---- MODULE Spec2Model ----
(***************************************************************************)
(* Model of static/script.js: the browser-side controller of the PDF       *)
(* summariser.  The state is the four module-level variables, the inline   *)
(* style / text of the DOM elements the script touches, the file held by   *)
(* the file input, and the fetch() calls whose promise has not settled.    *)
(* Every event handler is one action; an async handler is two: the part up *)
(* to its first await, and the continuation that runs when the round trip  *)
(* settles.                                                                *)
(*                                                                         *)
(* Strings of the source that contain non-ASCII glyphs are written with an *)
(* ASCII stand-in: "[x] " for the cross mark, "[ok] " for the check mark.  *)
(* Chat texts are sequences of one-character strings, so that trim() and   *)
(* escapeHtml() can be computed character by character.                    *)
(***************************************************************************)
EXTENDS Integers, Sequences, FiniteSets, TLC

\* ---------------------------------------------------------------- bounds
\* Pending POST /upload requests the model follows at once.
MaxUploadsInFlight == 2
\* Entries of the transcript the model follows; an ask is taken only while
\* its question and the answers still owed fit.
MaxTranscript == 4
\* Characters of a message text rendered on its own.
MaxTextLen == 3

\* ------------------------------------------------------ program constants
\* const maxSize = 20 * 1024 * 1024;
maxSize == 20 * 1024 * 1024

PdfType == "application/pdf"

\* ----------------------------------------------------------------- inputs
NoFile == [name |-> "", type |-> "", size |-> -1]

\* Files the user can pick or drop: two acceptable PDFs (one of exactly
\* maxSize bytes), a PDF one byte over the ceiling, and a non-PDF.
Files ==
    { [name |-> "a.pdf",   type |-> PdfType,      size |-> maxSize],
      [name |-> "b.pdf",   type |-> PdfType,      size |-> 1],
      [name |-> "big.pdf", type |-> PdfType,      size |-> maxSize + 1],
      [name |-> "n.txt",   type |-> "text/plain", size |-> 1] }

\* What a settled POST /upload can deliver: a parsed JSON body (fields may
\* be absent or empty), or a rejection / parse failure carrying a message.
UploadOutcomes ==
    { [kind |-> "json", data |-> [success |-> TRUE, filename |-> "doc1",
                                  summary_bullets |-> "B1",
                                  summary_detailed |-> "D1",
                                  summary_short |-> "S1"]],
      [kind |-> "json", data |-> [success |-> TRUE, filename |-> "doc2",
                                  summary_bullets |-> "",
                                  summary_detailed |-> "D2"]],
      [kind |-> "json", data |-> [success |-> FALSE, error |-> "bad pdf"]],
      [kind |-> "json", data |-> [success |-> FALSE]],
      [kind |-> "throw", message |-> "Failed to fetch"] }

NoAnswerReturned ==
    << "N","o"," ","a","n","s","w","e","r"," ",
       "r","e","t","u","r","n","e","d","." >>

\* What a settled POST /ask can deliver.
AskOutcomes ==
    { [kind |-> "json", data |-> [success |-> TRUE, answer |-> <<"P">>]],
      [kind |-> "json", data |-> [success |-> TRUE]],
      [kind |-> "json", data |-> [success |-> FALSE, error |-> "no document"]],
      [kind |-> "json", data |-> [success |-> FALSE]],
      [kind |-> "throw", message |-> "Failed to fetch"] }

\* What the user can have typed into the question field.
QuestionTexts == { <<>>, <<" ">>, <<"q">>, <<" ", "r", " ">> }

Modes == {"bullets", "short", "detailed"}

\* ------------------------------------------------------------------ state
VARIABLES
    currentFilename, lastBullets, lastDetailed, lastShort,
    file,             \* fileInput.files[0], NoFile when the list is empty
    fileNameText, fileNameShown,       \* fileNameDisplay
    submitBtn, loader,                 \* style.display
    errorText, errorDiv,               \* errorDiv.textContent, style.display
    summarySection, summaryTitle, summaryContent,
    summaryMode,                       \* summaryModeSelect.value
    activeTabs,                        \* modes of the .tab-btn with tab-btn-active
    chatMessages,                      \* children of #chatMessages, in order
    qaLoader, qaErrorText, qaError,
    questionInput,                     \* questionInput.value
    alertMsg,                          \* the open alert() dialog, "" when none
    everUploaded,                      \* history: a successful upload response
                                       \* has been handled
    uploadsInFlight,                   \* pending POST /upload, in issue order
    asksInFlight                       \* pending POST /ask, in issue order

uploadVars == << file, fileNameText, fileNameShown, submitBtn, loader,
                 errorText, errorDiv, uploadsInFlight >>
cacheVars == << currentFilename, lastBullets, lastDetailed, lastShort >>
summaryVars == << summarySection, summaryTitle, summaryContent,
                  summaryMode, activeTabs >>
chatVars == << chatMessages, qaLoader, qaErrorText, qaError,
               questionInput, asksInFlight >>
vars == << uploadVars, cacheVars, summaryVars, chatVars, alertMsg,
          everUploaded >>

\* ---------------------------------------------------------------- helpers
\* JavaScript's  obj.key || dflt  for a string field.
OrStr(obj, key, dflt) ==
    IF key \in DOMAIN obj /\ obj[key] # "" THEN obj[key] ELSE dflt

\* JavaScript's  obj.key || dflt  for a chat text.
OrText(obj, key, dflt) ==
    IF key \in DOMAIN obj /\ obj[key] # <<>> THEN obj[key] ELSE dflt

IsSpace(c) == c \in {" ", "\n", "\t"}

RECURSIVE TrimStart(_)
TrimStart(s) ==
    IF s # <<>> /\ IsSpace(Head(s)) THEN TrimStart(Tail(s)) ELSE s

RECURSIVE TrimEnd(_)
TrimEnd(s) ==
    IF s # <<>> /\ IsSpace(s[Len(s)])
    THEN TrimEnd(SubSeq(s, 1, Len(s) - 1)) ELSE s

\* String.prototype.trim
Trim(s) == TrimEnd(TrimStart(s))

RemoveAt(s, i) == SubSeq(s, 1, i - 1) \o SubSeq(s, i + 1, Len(s))

\* EscapeChar leaving the ampersand as it is.
EscapeChar_NoAmp(c) ==
    CASE c = "<" -> << "&", "l", "t", ";" >>
      [] c = ">" -> << "&", "g", "t", ";" >>
      [] OTHER   -> << c >>

\* escapeHtml: the serialisation of a text node (innerHTML of a div whose
\* textContent is the text) escapes exactly &, < and >.
EscapeChar(c) ==
    CASE c = "&" -> << "&", "a", "m", "p", ";" >>
      [] c = "<" -> << "&", "l", "t", ";" >>
      [] c = ">" -> << "&", "g", "t", ";" >>
      [] OTHER   -> << c >>

RECURSIVE escapeHtml(_)
escapeHtml(text) ==
    IF text = <<>> THEN <<>>
    ELSE EscapeChar(Head(text)) \o escapeHtml(Tail(text))

\* .replace(/\n/g, '<br>')
RECURSIVE ReplaceNewlines(_)
ReplaceNewlines(s) ==
    IF s = <<>> THEN <<>>
    ELSE (IF Head(s) = "\n" THEN << "<", "b", "r", ">" >> ELSE << Head(s) >>)
         \o ReplaceNewlines(Tail(s))

\* The element addChatMessage builds: msgDiv with its label and body.
ChatMessage(role, text) ==
    [ role  |-> role,
      class |-> IF role = "user" THEN "message-question" ELSE "message-answer",
      label |-> IF role = "user" THEN "You" ELSE "sunny",
      text  |-> text,
      html  |-> ReplaceNewlines(escapeHtml(text)) ]

\* addChatMessage inserting the element before the others.
addChatMessage_Prepend(messages, role, text) ==
    << ChatMessage(role, text) >> \o messages

\* addChatMessage replacing the content of the container by the element.
addChatMessage_Overwrite(messages, role, text) ==
    << ChatMessage(role, text) >>

\* addChatMessage(role, text): chatMessages.appendChild(msgDiv)
addChatMessage(messages, role, text) ==
    Append(messages, ChatMessage(role, text))

\* SummaryText without the placeholders.
SummaryText_NoPlaceholder(mode, bullets, short, detailed) ==
    IF mode = "bullets" THEN bullets
    ELSE IF mode = "short" THEN short
    ELSE detailed

\* The text and title showSelectedSummary picks for a mode.
SummaryText(mode, bullets, short, detailed) ==
    IF mode = "bullets"
    THEN (IF bullets # "" THEN bullets ELSE "No bullet summary available.")
    ELSE IF mode = "short"
    THEN (IF short # "" THEN short ELSE "No short overview available.")
    ELSE (IF detailed # "" THEN detailed ELSE "No detailed overview available.")

\* (the titles' leading glyphs are left out)
SummaryTitleOf(mode) ==
    IF mode = "bullets" THEN "Bullet Point Summary"
    ELSE IF mode = "short" THEN "Short Overview"
    ELSE "Detailed Overview"

\* The tab buttons left with class tab-btn-active by the forEach.
ActiveTabsOf(mode) == { m \in Modes : m = mode }

\* Rejection turning away a file of exactly maxSize bytes as well.
Rejection_AtCeiling(f) ==
    IF f.type # PdfType THEN "[x] Please upload a PDF file"
    ELSE IF f.size >= maxSize THEN "[x] File too large (max 20MB)"
    ELSE ""

\* handleFileSelect's two validations.
Rejection(f) ==
    IF f.type # PdfType THEN "[x] Please upload a PDF file"
    ELSE IF f.size > maxSize THEN "[x] File too large (max 20MB)"
    ELSE ""

\* ------------------------------------------------------------------- Init
\* The page as loaded: the script's variables are '', nothing is selected,
\* nothing is in flight.  The regions the script reveals by setting
\* style.display to 'block' / 'inline-block' start hidden; the select shows
\* its first option, which only the user's choice changes.
Init ==
    /\ currentFilename = "" /\ lastBullets = ""
    /\ lastDetailed = "" /\ lastShort = ""
    /\ file = NoFile
    /\ fileNameText = "" /\ fileNameShown = "none"
    /\ submitBtn = "none" /\ loader = "none"
    /\ errorText = "" /\ errorDiv = "none"
    /\ summarySection = "none" /\ summaryTitle = "" /\ summaryContent = ""
    /\ summaryMode = "bullets"
    /\ activeTabs = {}
    /\ chatMessages = <<>>
    /\ qaLoader = "none" /\ qaErrorText = "" /\ qaError = "none"
    /\ questionInput = <<>>
    /\ alertMsg = ""
    /\ everUploaded = FALSE
    /\ uploadsInFlight = <<>>
    /\ asksInFlight = <<>>

\* ---------------------------------------------------------------- actions
\* showError(message)
showError(message) ==
    /\ errorText' = message
    /\ errorDiv' = "block"

\* showQAError that sets the text and leaves the region hidden.
showQAError_TextOnly(message) ==
    /\ qaErrorText' = message
    /\ UNCHANGED qaError

\* showQAError(message)
showQAError(message) ==
    /\ qaErrorText' = message
    /\ qaError' = "block"

\* showSelectedSummary(), reading the select's value and the cached texts
\* as they are when it is called.
showSelectedSummary(mode, bullets, short, detailed) ==
    /\ summaryTitle' = SummaryTitleOf(mode)
    /\ summaryContent' = SummaryText(mode, bullets, short, detailed)
    /\ activeTabs' = ActiveTabsOf(mode)

\* AcceptFile that forgets to clear the document identifier.
AcceptFile_KeepFilename(f) ==
    /\ fileNameText' = "[ok] Selected: " \o f.name
    /\ fileNameShown' = "block"
    /\ submitBtn' = "inline-block"
    /\ errorDiv' = "none"
    /\ summarySection' = "none"
    /\ lastBullets' = ""
    /\ lastDetailed' = ""
    /\ lastShort' = ""
    /\ summaryContent' = ""
    /\ UNCHANGED << currentFilename, errorText, summaryTitle >>

\* What an accepted selection does: show the name and the submit control,
\* hide the error and the summary, clear the cached state.
AcceptFile(f) ==
    /\ fileNameText' = "[ok] Selected: " \o f.name
    /\ fileNameShown' = "block"
    /\ submitBtn' = "inline-block"
    /\ errorDiv' = "none"
    /\ summarySection' = "none"
    /\ lastBullets' = ""
    /\ lastDetailed' = ""
    /\ lastShort' = ""
    /\ currentFilename' = ""
    /\ summaryContent' = ""
    /\ UNCHANGED << errorText, summaryTitle >>

\* handleFileSelect withdrawing the earlier selection when it rejects a file.
handleFileSelect_RejectWithdraws(f) ==
    /\ IF f = NoFile
       THEN UNCHANGED << fileNameText, fileNameShown, submitBtn, errorText,
                         errorDiv, cacheVars, summarySection, summaryTitle,
                         summaryContent >>
       ELSE IF Rejection(f) # ""
       THEN /\ showError(Rejection(f))
            /\ fileNameShown' = "none"
            /\ submitBtn' = "none"
            /\ UNCHANGED << fileNameText, cacheVars, summarySection,
                            summaryTitle, summaryContent >>
       ELSE AcceptFile(f)
    /\ UNCHANGED << loader, uploadsInFlight, summaryMode, activeTabs,
                    chatVars, alertMsg, everUploaded >>

\* handleFileSelect emptying the transcript when it accepts a file.
handleFileSelect_ClearsTranscript(f) ==
    /\ IF f = NoFile
       THEN UNCHANGED << fileNameText, fileNameShown, submitBtn, errorText,
                         errorDiv, cacheVars, summarySection, summaryTitle,
                         summaryContent, chatMessages >>
       ELSE IF Rejection(f) # ""
       THEN /\ showError(Rejection(f))
            /\ UNCHANGED << fileNameText, fileNameShown, submitBtn, cacheVars,
                            summarySection, summaryTitle, summaryContent,
                            chatMessages >>
       ELSE AcceptFile(f) /\ chatMessages' = <<>>
    /\ UNCHANGED << loader, uploadsInFlight, summaryMode, activeTabs,
                    qaLoader, qaErrorText, qaError, questionInput,
                    asksInFlight, alertMsg, everUploaded >>

\* handleFileSelect(), f being fileInput.files[0] when it runs.
handleFileSelect(f) ==
    /\ IF f = NoFile
       THEN UNCHANGED << fileNameText, fileNameShown, submitBtn, errorText,
                         errorDiv, cacheVars, summarySection, summaryTitle,
                         summaryContent >>
       ELSE IF Rejection(f) # ""
       THEN /\ showError(Rejection(f))
            /\ UNCHANGED << fileNameText, fileNameShown, submitBtn, cacheVars,
                            summarySection, summaryTitle, summaryContent >>
       ELSE AcceptFile(f)
    /\ UNCHANGED << loader, uploadsInFlight, summaryMode, activeTabs,
                    chatVars, alertMsg, everUploaded >>

\* fileInput 'change': the picker has replaced the input's file list (an
\* emptied list when the browser clears the selection), then the handler runs.
FileInputChange(f) ==
    /\ alertMsg = ""
    /\ f # file
    /\ file' = f
    /\ handleFileSelect(f)

\* uploadArea 'drop': files.length > 0, fileInput.files = files, handler.
Drop(f) ==
    /\ alertMsg = ""
    /\ f # NoFile
    /\ file' = f
    /\ handleFileSelect(f)

\* The request uploadFile builds: the form data holds fileInput.files[0].
UploadRequest(f) == [pdf |-> f]

\* ShowUploading that leaves the submit control displayed.
ShowUploading_KeepSubmit ==
    /\ loader' = "block"
    /\ errorDiv' = "none"
    /\ UNCHANGED submitBtn

\* What uploadFile shows while the request is pending.
ShowUploading ==
    /\ loader' = "block"
    /\ submitBtn' = "none"
    /\ errorDiv' = "none"

\* submitBtn 'click' -> uploadFile(), up to the await of fetch('/upload').
\* The control can be clicked only while it is displayed.
UploadClick ==
    /\ alertMsg = ""
    /\ submitBtn = "inline-block"
    /\ IF file = NoFile
       THEN UNCHANGED vars
       ELSE /\ Len(uploadsInFlight) < MaxUploadsInFlight
            /\ ShowUploading
            /\ uploadsInFlight' = Append(uploadsInFlight, UploadRequest(file))
            /\ UNCHANGED << file, fileNameText, fileNameShown, errorText,
                            cacheVars, summaryVars, chatVars, alertMsg, everUploaded >>

\* UploadResult caching the detailed summary as the short one too.
UploadResult_ShortFromDetailed(data) ==
    [ filename |-> OrStr(data, "filename", ""),
      bullets  |-> OrStr(data, "summary_bullets", ""),
      detailed |-> OrStr(data, "summary_detailed", ""),
      short    |-> OrStr(data, "summary_detailed", "") ]

\* What the success branch caches from the parsed body.
UploadResult(data) ==
    [ filename |-> OrStr(data, "filename", ""),
      bullets  |-> OrStr(data, "summary_bullets", ""),
      detailed |-> OrStr(data, "summary_detailed", ""),
      short    |-> OrStr(data, "summary_short", "") ]

\* UploadSucceeded putting the select back on the bullet variant.
UploadSucceeded_ResetsMode(i, data) ==
    /\ currentFilename' = UploadResult(data).filename
    /\ lastBullets' = UploadResult(data).bullets
    /\ lastDetailed' = UploadResult(data).detailed
    /\ lastShort' = UploadResult(data).short
    /\ summaryMode' = "bullets"
    /\ showSelectedSummary(summaryMode', lastBullets', lastShort', lastDetailed')
    /\ summarySection' = "block"
    /\ loader' = "none"
    /\ uploadsInFlight' = RemoveAt(uploadsInFlight, i)
    /\ everUploaded' = TRUE
    /\ UNCHANGED << file, fileNameText, fileNameShown, submitBtn, errorText,
                    errorDiv, chatVars, alertMsg >>

\* The continuation of uploadFile() when request i settles with a parsed
\* body whose success is truthy.  The finally block hides the loader.
UploadSucceeded(i, data) ==
    /\ currentFilename' = UploadResult(data).filename
    /\ lastBullets' = UploadResult(data).bullets
    /\ lastDetailed' = UploadResult(data).detailed
    /\ lastShort' = UploadResult(data).short
    /\ showSelectedSummary(summaryMode, lastBullets', lastShort', lastDetailed')
    /\ summarySection' = "block"
    /\ loader' = "none"
    /\ uploadsInFlight' = RemoveAt(uploadsInFlight, i)
    /\ everUploaded' = TRUE
    /\ UNCHANGED << file, fileNameText, fileNameShown, submitBtn, errorText,
                    errorDiv, summaryMode, chatVars, alertMsg >>

\* UploadFailed that does not show the submit control again.
UploadFailed_NoRetry(i, data) ==
    /\ showError("[x] " \o OrStr(data, "error", "Unknown error"))
    /\ loader' = "none"
    /\ uploadsInFlight' = RemoveAt(uploadsInFlight, i)
    /\ UNCHANGED << file, fileNameText, fileNameShown, submitBtn, cacheVars,
                    summaryVars, chatVars, alertMsg, everUploaded >>

\* ... with a parsed body whose success is falsy.
UploadFailed(i, data) ==
    /\ showError("[x] " \o OrStr(data, "error", "Unknown error"))
    /\ submitBtn' = "inline-block"
    /\ loader' = "none"
    /\ uploadsInFlight' = RemoveAt(uploadsInFlight, i)
    /\ UNCHANGED << file, fileNameText, fileNameShown, cacheVars,
                    summaryVars, chatVars, alertMsg, everUploaded >>

\* UploadThrew issuing the request again after a transport failure.
UploadThrew_AutoRetry(i, message) ==
    /\ showError("[x] Error: " \o message)
    /\ submitBtn' = "inline-block"
    /\ loader' = "none"
    /\ uploadsInFlight' = Append(RemoveAt(uploadsInFlight, i), uploadsInFlight[i])
    /\ UNCHANGED << file, fileNameText, fileNameShown, cacheVars,
                    summaryVars, chatVars, alertMsg, everUploaded >>

\* ... with fetch() rejected or res.json() throwing: the catch block.
UploadThrew(i, message) ==
    /\ showError("[x] Error: " \o message)
    /\ submitBtn' = "inline-block"
    /\ loader' = "none"
    /\ uploadsInFlight' = RemoveAt(uploadsInFlight, i)
    /\ UNCHANGED << file, fileNameText, fileNameShown, cacheVars,
                    summaryVars, chatVars, alertMsg, everUploaded >>

\* Request i settles with outcome o.
UploadSettle(i, o) ==
    /\ alertMsg = ""
    /\ i \in DOMAIN uploadsInFlight
    /\ IF o.kind = "throw" THEN UploadThrew(i, o.message)
       ELSE IF o.data.success THEN UploadSucceeded(i, o.data)
       ELSE UploadFailed(i, o.data)

\* summaryModeSelect 'change': the user picked another option.
SummaryModeChange(m) ==
    /\ alertMsg = ""
    /\ m # summaryMode
    /\ summaryMode' = m
    /\ showSelectedSummary(m, lastBullets, lastShort, lastDetailed)
    /\ UNCHANGED << uploadVars, cacheVars, summarySection, chatVars, alertMsg, everUploaded >>

\* .tab-btn 'click': summaryModeSelect.value = btn.dataset.mode, then render.
TabClick(m) ==
    /\ alertMsg = ""
    /\ summaryMode' = m
    /\ showSelectedSummary(m, lastBullets, lastShort, lastDetailed)
    /\ UNCHANGED << uploadVars, cacheVars, summarySection, chatVars, alertMsg, everUploaded >>

\* The user edits the question field.
TypeQuestion(q) ==
    /\ alertMsg = ""
    /\ q # questionInput
    /\ questionInput' = q
    /\ UNCHANGED << uploadVars, cacheVars, summaryVars, chatMessages, qaLoader,
                    qaErrorText, qaError, asksInFlight, alertMsg, everUploaded >>

\* The JSON body askQuestion posts.
AskRequest(question, filename) ==
    [question |-> question, filename |-> filename]

\* AskNotice without the check of the document identifier.
AskNotice_NoDocumentCheck(filename, question) ==
    IF question = <<>> THEN "Please type a question." ELSE ""

\* The notice askQuestion's two early returns raise, "" when it goes on.
AskNotice(filename, question) ==
    IF filename = "" THEN "Please upload a PDF and generate a summary first."
    ELSE IF question = <<>> THEN "Please type a question."
    ELSE ""

\* ShowAsking leaving the QA loader as it is.
ShowAsking_NoLoader ==
    /\ qaError' = "none"
    /\ UNCHANGED qaLoader

\* What askQuestion shows while the request is pending.
ShowAsking ==
    /\ qaLoader' = "block"
    /\ qaError' = "none"

\* askQuestion() up to the await of fetch('/ask').  alert() opens a modal
\* dialog; the handler returns when it is dismissed.  A pending call is the
\* body it posted and (history) the place of its user entry in the transcript.
askQuestion ==
    /\ alertMsg = ""
    /\ LET question == Trim(questionInput) IN
       IF AskNotice(currentFilename, question) # ""
       THEN /\ alertMsg' = AskNotice(currentFilename, question)
            /\ UNCHANGED << uploadVars, cacheVars, summaryVars, chatVars,
                            everUploaded >>
       ELSE /\ Len(chatMessages) + Len(asksInFlight) + 2 <= MaxTranscript
            /\ ShowAsking
            /\ chatMessages' = addChatMessage(chatMessages, "user", question)
            /\ asksInFlight' =
                   Append(asksInFlight,
                          [ body  |-> AskRequest(question, currentFilename),
                            entry |-> Len(chatMessages) + 1 ])
            /\ UNCHANGED << uploadVars, cacheVars, summaryVars, qaErrorText,
                            questionInput, alertMsg, everUploaded >>

\* askBtn 'click'
AskClick == askQuestion

\* questionInput 'keypress' with e.key === 'Enter'
QuestionEnter == askQuestion

\* The user closes the alert dialog.
DismissAlert ==
    /\ alertMsg # ""
    /\ alertMsg' = ""
    /\ UNCHANGED << uploadVars, cacheVars, summaryVars, chatVars, everUploaded >>

\* The continuation of askQuestion() when request i settles with a parsed
\* body whose success is truthy.  The finally block hides the QA loader.
AskSucceeded(i, data) ==
    /\ chatMessages' = addChatMessage(chatMessages, "assistant",
                                      OrText(data, "answer", NoAnswerReturned))
    /\ questionInput' = <<>>
    /\ qaLoader' = "none"
    /\ asksInFlight' = RemoveAt(asksInFlight, i)
    /\ UNCHANGED << uploadVars, cacheVars, summaryVars, qaErrorText, qaError,
                    alertMsg, everUploaded >>

\* AskFailed putting the error into the transcript as an answer.
AskFailed_EchoesError(i, data) ==
    /\ showQAError("[x] " \o OrStr(data, "error", "Unknown error"))
    /\ chatMessages' = addChatMessage(chatMessages, "assistant", << "!" >>)
    /\ qaLoader' = "none"
    /\ asksInFlight' = RemoveAt(asksInFlight, i)
    /\ UNCHANGED << uploadVars, cacheVars, summaryVars,
                    questionInput, alertMsg, everUploaded >>

\* ... with a parsed body whose success is falsy.
AskFailed(i, data) ==
    /\ showQAError("[x] " \o OrStr(data, "error", "Unknown error"))
    /\ qaLoader' = "none"
    /\ asksInFlight' = RemoveAt(asksInFlight, i)
    /\ UNCHANGED << uploadVars, cacheVars, summaryVars, chatMessages,
                    questionInput, alertMsg, everUploaded >>

\* AskThrew without the finally block.
AskThrew_NoFinally(i, message) ==
    /\ showQAError("[x] Error: " \o message)
    /\ asksInFlight' = RemoveAt(asksInFlight, i)
    /\ UNCHANGED << uploadVars, cacheVars, summaryVars, chatMessages,
                    qaLoader, questionInput, alertMsg, everUploaded >>

\* ... with fetch() rejected or res.json() throwing: the catch block.
AskThrew(i, message) ==
    /\ showQAError("[x] Error: " \o message)
    /\ qaLoader' = "none"
    /\ asksInFlight' = RemoveAt(asksInFlight, i)
    /\ UNCHANGED << uploadVars, cacheVars, summaryVars, chatMessages,
                    questionInput, alertMsg, everUploaded >>

\* Request i settles with outcome o.
AskSettle(i, o) ==
    /\ alertMsg = ""
    /\ i \in DOMAIN asksInFlight
    /\ IF o.kind = "throw" THEN AskThrew(i, o.message)
       ELSE IF o.data.success THEN AskSucceeded(i, o.data)
       ELSE AskFailed(i, o.data)

\* ---------------------------------------------------------- specifications
\* Every handler of the page, every input.
Next ==
    \/ \E f \in Files \cup {NoFile} : FileInputChange(f)
    \/ \E f \in Files : Drop(f)
    \/ UploadClick
    \/ \E i \in 1..MaxUploadsInFlight, o \in UploadOutcomes : UploadSettle(i, o)
    \/ \E m \in Modes : SummaryModeChange(m)
    \/ \E m \in Modes : TabClick(m)
    \/ \E q \in QuestionTexts : TypeQuestion(q)
    \/ AskClick
    \/ QuestionEnter
    \/ DismissAlert
    \/ \E i \in 1..MaxTranscript, o \in AskOutcomes : AskSettle(i, o)

Spec == Init /\ [][Next]_vars

\* The upload and summary handlers with all their inputs.  The chat handlers
\* neither read nor write anything these handlers write except
\* currentFilename, which they only read.
NextUpload ==
    \/ \E f \in Files \cup {NoFile} : FileInputChange(f)
    \/ \E f \in Files : Drop(f)
    \/ UploadClick
    \/ \E i \in 1..MaxUploadsInFlight, o \in UploadOutcomes : UploadSettle(i, o)
    \/ \E m \in Modes : SummaryModeChange(m)
    \/ \E m \in Modes : TabClick(m)

SpecUpload == Init /\ [][NextUpload]_vars

\* The chat handlers with all their inputs, and the upload handlers with the
\* inputs that decide what the chat handlers read: an accepted file, and an
\* upload that succeeds or fails.
ChatFiles == { f \in Files : f.name = "a.pdf" }

ChatUploadOutcomes ==
    { o \in UploadOutcomes :
        /\ o.kind = "json"
        /\ OrStr(o.data, "filename", "") = "doc1" \/ DOMAIN o.data = {"success"} }

NextChat ==
    \/ \E f \in ChatFiles : Drop(f)
    \/ UploadClick
    \/ \E i \in 1..MaxUploadsInFlight, o \in ChatUploadOutcomes : UploadSettle(i, o)
    \/ \E q \in QuestionTexts : TypeQuestion(q)
    \/ AskClick
    \/ QuestionEnter
    \/ DismissAlert
    \/ \E i \in 1..MaxTranscript, o \in AskOutcomes : AskSettle(i, o)

SpecChat == Init /\ [][NextChat]_vars

\* Every handler of the page, each with inputs that take it through each of
\* its branches: a file that is accepted and two that are rejected, an upload
\* and an ask that succeed or fail, a question, every summary variant.
PageFiles == { f \in Files : f.name \in {"a.pdf", "big.pdf", "n.txt"} }

PageUploadOutcomes ==
    { o \in UploadOutcomes :
        /\ o.kind = "json"
        /\ OrStr(o.data, "filename", "") = "doc1" \/ DOMAIN o.data = {"success"} }

PageAskOutcomes ==
    { o \in AskOutcomes :
        \/ o.kind = "throw"
        \/ o.kind = "json" /\ OrText(o.data, "answer", <<>>) = <<"P">> }

PageQuestions == { <<"q">> }

NextPage ==
    \/ \E f \in PageFiles : FileInputChange(f)
    \/ \E f \in PageFiles : Drop(f)
    \/ UploadClick
    \/ \E i \in 1..MaxUploadsInFlight, o \in PageUploadOutcomes : UploadSettle(i, o)
    \/ \E m \in Modes : SummaryModeChange(m)
    \/ \E m \in Modes : TabClick(m)
    \/ \E q \in PageQuestions : TypeQuestion(q)
    \/ AskClick
    \/ QuestionEnter
    \/ DismissAlert
    \/ \E i \in 1..MaxTranscript, o \in PageAskOutcomes : AskSettle(i, o)

SpecPage == Init /\ [][NextPage]_vars

\* addChatMessage(role, text) on its own, for every text over an alphabet
\* holding the characters the rendering treats specially.  The text to
\* render is the content of the question field, which is any such text when
\* the behaviour starts; the transcript is empty and one entry is rendered.
MessageChars == { "<", ">", "&", "\n", "a" }

MessageTexts == UNION { [1..n -> MessageChars] : n \in 0..MaxTextLen }

InitRender ==
    /\ currentFilename = "" /\ lastBullets = ""
    /\ lastDetailed = "" /\ lastShort = ""
    /\ file = NoFile
    /\ fileNameText = "" /\ fileNameShown = "none"
    /\ submitBtn = "none" /\ loader = "none"
    /\ errorText = "" /\ errorDiv = "none"
    /\ summarySection = "none" /\ summaryTitle = "" /\ summaryContent = ""
    /\ summaryMode = "bullets"
    /\ activeTabs = {}
    /\ chatMessages = <<>>
    /\ qaLoader = "none" /\ qaErrorText = "" /\ qaError = "none"
    /\ questionInput \in MessageTexts
    /\ alertMsg = ""
    /\ everUploaded = FALSE
    /\ uploadsInFlight = <<>>
    /\ asksInFlight = <<>>

RenderEntry(role) ==
    /\ chatMessages = <<>>
    /\ chatMessages' = addChatMessage(chatMessages, role, questionInput)
    /\ UNCHANGED << uploadVars, cacheVars, summaryVars, qaLoader, qaErrorText,
                    qaError, questionInput, asksInFlight, alertMsg,
                    everUploaded >>

NextRender == \E role \in {"user", "assistant"} : RenderEntry(role)

SpecRender == InitRender /\ [][NextRender]_vars

\* Both round trips with each kind of outcome (success, failure signalled by
\* the server, transport or parse failure), under the scheduling the page
\* relies on: a pending request is eventually settled by the transport, and
\* the user eventually dismisses an alert.
SettleUploadOutcomes ==
    { o \in UploadOutcomes :
        \/ o.kind = "throw"
        \/ o.kind = "json" /\ OrStr(o.data, "filename", "") = "doc1"
        \/ o.kind = "json" /\ OrStr(o.data, "error", "") = "bad pdf" }

SettleAskOutcomes ==
    { o \in AskOutcomes :
        \/ o.kind = "throw"
        \/ o.kind = "json" /\ OrText(o.data, "answer", <<>>) = <<"P">>
        \/ o.kind = "json" /\ OrStr(o.data, "error", "") = "no document" }

SettleQuestions == { <<>>, <<"q">> }

UploadSettles ==
    \E i \in 1..MaxUploadsInFlight, o \in SettleUploadOutcomes : UploadSettle(i, o)

AskSettles ==
    \E i \in 1..MaxTranscript, o \in SettleAskOutcomes : AskSettle(i, o)

NextSettle ==
    \/ \E f \in ChatFiles : Drop(f)
    \/ UploadClick
    \/ UploadSettles
    \/ \E q \in SettleQuestions : TypeQuestion(q)
    \/ AskClick
    \/ DismissAlert
    \/ AskSettles

SpecSettle ==
    /\ Init
    /\ [][NextSettle]_vars
    /\ WF_vars(DismissAlert)
    /\ SF_vars(UploadSettles)
    /\ SF_vars(AskSettles)

\* ------------------------------------------------------------------ claims
Accepted(f) == f # NoFile /\ f.type = PdfType /\ f.size <= maxSize

IsBlank(s) == \A k \in DOMAIN s : IsSpace(s[k])

\* C1: every upload request that has been issued carries a file of type
\* application/pdf of at most 20 MiB.  A request is in flight from the step
\* that issues it, so it is enough to look at the requests in flight.
C1_UploadsArePdfWithinLimit ==
    \A i \in DOMAIN uploadsInFlight :
        /\ uploadsInFlight[i].pdf.type = PdfType
        /\ uploadsInFlight[i].pdf.size <= maxSize

\* C2: a POST /ask is issued only with a non-empty document identifier and a
\* non-blank question, and carries both; before any successful upload has
\* been handled there is no identifier and nothing has been asked; when
\* askQuestion finds a precondition failing it raises a notice and leaves the
\* pending asks, the transcript, the QA loader and the QA error region alone.
C2_AskNeedsDocumentAndQuestion ==
    /\ [](~everUploaded =>
            currentFilename = "" /\ asksInFlight = <<>> /\ chatMessages = <<>>)
    /\ [][ /\ Len(asksInFlight') > Len(asksInFlight) =>
                /\ currentFilename # ""
                /\ ~IsBlank(questionInput)
                /\ asksInFlight'[Len(asksInFlight')].body.filename = currentFilename
                /\ asksInFlight'[Len(asksInFlight')].body.question # <<>>
           /\ askQuestion /\ (currentFilename = "" \/ IsBlank(questionInput)) =>
                /\ alertMsg' # ""
                /\ UNCHANGED << asksInFlight, chatMessages, qaLoader, qaError,
                                qaErrorText >> ]_vars

\* C2 witness: a question was typed and asked before any upload succeeded;
\* the notice is open and nothing was sent.
C2_Witness ==
    /\ ~everUploaded
    /\ ~IsBlank(questionInput)
    /\ alertMsg = "Please upload a PDF and generate a summary first."
    /\ asksInFlight = <<>>

AskSucceeds(o) == o.kind = "json" /\ o.data.success

\* The answer text a successful /ask response carries.
AnswerOf(o) ==
    IF "answer" \in DOMAIN o.data /\ o.data.answer # <<>>
    THEN o.data.answer ELSE NoAnswerReturned

\* The message a failed /ask is to show.
ExpectedAskError(o) ==
    IF o.kind = "throw" THEN "[x] Error: " \o o.message
    ELSE IF "error" \in DOMAIN o.data /\ o.data.error # ""
    THEN "[x] " \o o.data.error
    ELSE "[x] Unknown error"

C4_FailedAskKeepsQuestion ==
    [][ \A i \in DOMAIN asksInFlight, o \in AskOutcomes :
          AskSettle(i, o) /\ ~AskSucceeds(o) =>
            LET e == asksInFlight[i].entry IN
            /\ chatMessages' = chatMessages
            /\ e \in DOMAIN chatMessages'
            /\ chatMessages'[e].role = "user"
            /\ chatMessages'[e].text = asksInFlight[i].body.question
            /\ questionInput' = questionInput
            /\ qaError' = "block"
            /\ qaErrorText' = ExpectedAskError(o) ]_vars

\* C4 witness: the only ask failed with the server's error 'no document';
\* its question is the last transcript entry and still in the field.
C4_Witness ==
    /\ asksInFlight = <<>>
    /\ Len(chatMessages) = 1
    /\ chatMessages[1].role = "user" /\ chatMessages[1].text = <<"q">>
    /\ questionInput = <<"q">>
    /\ qaError = "block"
    /\ qaErrorText = "[x] no document"

\* A step in which the handler of a file selection ran on file f.
Selected(f) == FileInputChange(f) \/ Drop(f)

UploadSucceeds(o) == o.kind = "json" /\ o.data.success

\* A field of a response body, '' when absent.
FieldOf(data, key) == IF key \in DOMAIN data THEN data[key] ELSE ""

\* The message a failed upload is to show.
ExpectedUploadError(o) ==
    IF o.kind = "throw" THEN "[x] Error: " \o o.message
    ELSE IF FieldOf(o.data, "error") # "" THEN "[x] " \o o.data.error
    ELSE "[x] Unknown error"

\* What each summary variant is to show.
ExpectedTitle(m) ==
    CASE m = "bullets"  -> "Bullet Point Summary"
      [] m = "short"    -> "Short Overview"
      [] m = "detailed" -> "Detailed Overview"

Placeholder(m) ==
    CASE m = "bullets"  -> "No bullet summary available."
      [] m = "short"    -> "No short overview available."
      [] m = "detailed" -> "No detailed overview available."

ResponseField(m) ==
    CASE m = "bullets"  -> "summary_bullets"
      [] m = "short"    -> "summary_short"
      [] m = "detailed" -> "summary_detailed"

ExpectedBody(m, text) == IF text = "" THEN Placeholder(m) ELSE text

\* C5: a selected PDF of more than 20*1024*1024 bytes is rejected with the
\* size error shown in the upload error region; a PDF of at most that size
\* (exactly 20 MiB included) is accepted: its name and the submit control
\* are shown and the error region is hidden.
C5_SizeCeiling ==
    [][ \A f \in Files :
          Selected(f) /\ f.type = PdfType =>
            IF f.size > 20 * 1024 * 1024
            THEN /\ errorDiv' = "block"
                 /\ errorText' = "[x] File too large (max 20MB)"
            ELSE /\ fileNameText' = "[ok] Selected: " \o f.name
                 /\ fileNameShown' = "block"
                 /\ submitBtn' = "inline-block"
                 /\ errorDiv' = "none" ]_vars

\* C5 witness: a PDF of exactly 20 MiB was accepted, then a PDF one byte
\* larger was rejected with the size error.
C5_Witness ==
    /\ file.type = PdfType /\ file.size = 20 * 1024 * 1024 + 1
    /\ errorDiv = "block"
    /\ errorText = "[x] File too large (max 20MB)"
    /\ fileNameText = "[ok] Selected: a.pdf"
    /\ submitBtn = "inline-block"

\* C6 as stated: whenever an upload request is in flight the loader is shown
\* and the submit control is hidden.
C6_InFlightShowsLoaderHidesSubmit ==
    uploadsInFlight # <<>> => loader = "block" /\ submitBtn = "none"

\* C6 amended: the step that issues an upload request shows the loader and
\* hides the submit control and the error region; after that the loader is
\* hidden only by the handling of an upload response, and a hidden submit
\* control is shown again only by an accepted file selection or by the
\* handling of a failed upload response.
C6_UploadingShownUntilSettledOrReselected ==
    [][ /\ Len(uploadsInFlight') > Len(uploadsInFlight) =>
              loader' = "block" /\ submitBtn' = "none" /\ errorDiv' = "none"
        /\ loader = "block" /\ loader' # "block" =>
              Len(uploadsInFlight') < Len(uploadsInFlight)
        /\ submitBtn = "none" /\ submitBtn' # "none" =>
              \/ \E f \in Files : Selected(f) /\ Accepted(f)
              \/ /\ Len(uploadsInFlight') < Len(uploadsInFlight)
                 /\ errorDiv' = "block" ]_vars

\* C6 witness: a request is pending after a click that hid an earlier error.
C6_Witness ==
    /\ Len(uploadsInFlight) = 1
    /\ loader = "block"
    /\ submitBtn = "none"
    /\ errorDiv = "none"
    /\ errorText # ""

\* C7: after a successful upload response is handled, the identifier and the
\* three cached summaries are the response's fields ('' for an absent one),
\* the variant chosen in the dropdown is rendered (title, text or
\* placeholder, its tab highlighted), the summary region is shown, and the
\* handler leaves the submit control as it was (hidden by the click).
C7_SuccessCachesAndRenders ==
    [][ \A i \in DOMAIN uploadsInFlight, o \in UploadOutcomes :
          UploadSettle(i, o) /\ UploadSucceeds(o) =>
            /\ currentFilename' = FieldOf(o.data, "filename")
            /\ lastBullets' = FieldOf(o.data, "summary_bullets")
            /\ lastDetailed' = FieldOf(o.data, "summary_detailed")
            /\ lastShort' = FieldOf(o.data, "summary_short")
            /\ summaryMode' = summaryMode
            /\ summaryTitle' = ExpectedTitle(summaryMode)
            /\ summaryContent' =
                  ExpectedBody(summaryMode,
                               FieldOf(o.data, ResponseField(summaryMode)))
            /\ activeTabs' = {summaryMode}
            /\ summarySection' = "block"
            /\ submitBtn' = submitBtn ]_vars

\* C7 witness: the response without a short summary was handled while the
\* short variant was chosen; the submit control is still hidden.
C7_Witness ==
    /\ uploadsInFlight = <<>>
    /\ currentFilename = "doc2"
    /\ lastDetailed = "D2" /\ lastBullets = "" /\ lastShort = ""
    /\ summaryMode = "short"
    /\ summaryContent = "No short overview available."
    /\ summarySection = "block"
    /\ submitBtn = "none"
    /\ loader = "none"

\* C8: after a failed upload (success false, or a rejected request / parse
\* failure) is handled, the upload error region is shown with the server's
\* error text, 'Unknown error', or 'Error: ' plus the failure message, the
\* submit control is shown, the loader is hidden, and the identifier and
\* the cached summaries are unchanged.
C8_FailedUploadCanBeRetried ==
    [][ \A i \in DOMAIN uploadsInFlight, o \in UploadOutcomes :
          UploadSettle(i, o) /\ ~UploadSucceeds(o) =>
            /\ errorDiv' = "block"
            /\ errorText' = ExpectedUploadError(o)
            /\ submitBtn' = "inline-block"
            /\ loader' = "none"
            /\ UNCHANGED << currentFilename, lastBullets, lastDetailed,
                            lastShort >> ]_vars

\* C8 witness: the only upload failed with the server's error 'bad pdf'.
C8_Witness ==
    /\ uploadsInFlight = <<>>
    /\ Accepted(file)
    /\ errorDiv = "block"
    /\ errorText = "[x] bad pdf"
    /\ submitBtn = "inline-block"
    /\ loader = "none"
    /\ ~everUploaded

\* C9: choosing variant m, by the dropdown or by a tab, renders m's title
\* and m's cached text, or m's placeholder when that text is empty, and
\* leaves exactly m's tab highlighted; both paths give this same state.
C9_VariantRendered ==
    [][ \A m \in Modes :
          SummaryModeChange(m) \/ TabClick(m) =>
            /\ summaryMode' = m
            /\ summaryTitle' = ExpectedTitle(m)
            /\ summaryContent' =
                  ExpectedBody(m, CASE m = "bullets"  -> lastBullets
                                    [] m = "short"    -> lastShort
                                    [] m = "detailed" -> lastDetailed)
            /\ activeTabs' = {m} ]_vars

\* C9 witness: with an upload result cached whose short summary is absent,
\* the short variant is shown as its placeholder with its tab highlighted.
C9_Witness ==
    /\ summarySection = "block"
    /\ currentFilename = "doc2" /\ lastShort = "" /\ lastDetailed = "D2"
    /\ summaryMode = "short"
    /\ summaryTitle = "Short Overview"
    /\ summaryContent = "No short overview available."
    /\ activeTabs = {"short"}

\* C10: immediately after an accepted selection the identifier and the
\* three cached summaries are empty, the summary region is hidden and its
\* body text empty, the upload error region is hidden and the submit
\* control is shown.
C10_AcceptedSelectionClearsCache ==
    [][ \A f \in Files :
          Selected(f) /\ Accepted(f) =>
            /\ currentFilename' = ""
            /\ lastBullets' = "" /\ lastDetailed' = "" /\ lastShort' = ""
            /\ summarySection' = "none"
            /\ summaryContent' = ""
            /\ errorDiv' = "none"
            /\ submitBtn' = "inline-block" ]_vars

\* C10 witness: a file was accepted after an upload had succeeded and been
\* rendered; the cache is empty and the summary hidden.
C10_Witness ==
    /\ everUploaded
    /\ Accepted(file)
    /\ uploadsInFlight = <<>>
    /\ currentFilename = "" /\ lastBullets = ""
    /\ lastDetailed = "" /\ lastShort = ""
    /\ summarySection = "none"
    /\ summaryContent = ""
    /\ summaryTitle # ""
    /\ errorDiv = "none"
    /\ submitBtn = "inline-block"
\* C11 as stated: immediately after an accepted selection the transcript
\* holds no entry exchanged about a previously uploaded document.  The
\* selection clears the identifier, so every entry then in the transcript
\* was exchanged about an earlier document: the transcript is to be empty.
C11_AcceptedSelectionClearsTranscript ==
    [][ \A f \in Files :
          Selected(f) /\ Accepted(f) => chatMessages' = <<>> ]_vars

\* C11 amended: an accepted selection leaves the transcript and the pending
\* asks exactly as they were; what it clears of the chat's state is the
\* document identifier the next question would carry.
C11_AcceptedSelectionKeepsTranscript ==
    [][ \A f \in Files :
          Selected(f) /\ Accepted(f) =>
            /\ chatMessages' = chatMessages
            /\ asksInFlight' = asksInFlight
            /\ currentFilename' = "" ]_vars

\* C11 witness: a question about the uploaded document was answered, then a
\* file was accepted: the exchange is still in the transcript.
C11_Witness ==
    /\ everUploaded
    /\ currentFilename = ""
    /\ summarySection = "none"
    /\ submitBtn = "inline-block"
    /\ Len(chatMessages) = 2
    /\ chatMessages[1].role = "user"
    /\ chatMessages[2].role = "assistant"
    /\ asksInFlight = <<>>

IsPrefix(s, t) == Len(s) <= Len(t) /\ SubSeq(t, 1, Len(s)) = s

\* C12: in every step the transcript before the step is a prefix of the
\* transcript after it, and a step in which askQuestion passes its
\* preconditions appends exactly one entry: the user entry holding the
\* question without its surrounding blanks.
C12_TranscriptAppendOnly ==
    [][ /\ IsPrefix(chatMessages, chatMessages')
        /\ askQuestion /\ currentFilename # "" /\ ~IsBlank(questionInput) =>
              LET n == Len(chatMessages') IN
              /\ n = Len(chatMessages) + 1
              /\ chatMessages'[n].role = "user"
              /\ chatMessages'[n].text # <<>>
              /\ ~IsSpace(chatMessages'[n].text[1])
              /\ ~IsSpace(chatMessages'[n].text[Len(chatMessages'[n].text)])
              /\ \E a, b \in 0..Len(questionInput) :
                    /\ questionInput =
                          [k \in 1..a |-> " "] \o chatMessages'[n].text
                                               \o [k \in 1..b |-> " "] ]_vars

\* C12 witness: two exchanges, each answer after its question.
C12_Witness ==
    /\ Len(chatMessages) = 4
    /\ chatMessages[1].role = "user"
    /\ chatMessages[2].role = "assistant"
    /\ chatMessages[3].role = "user"
    /\ chatMessages[3].text # chatMessages[1].text
    /\ chatMessages[4].role = "assistant"
\* The click on the submit control that uploadFile answers with a request.
SubmitWithFile == UploadClick /\ file # NoFile

\* s without its i-th element.
Without(s, i) == [k \in 1..(Len(s) - 1) |-> IF k < i THEN s[k] ELSE s[k + 1]]

\* C13: a click on the submit control with a file in the input adds exactly
\* one request, carrying that file, to the requests issued; no other step adds
\* one (in particular no selection and no response), and the step handling
\* the response to request i only takes that request out of the pending
\* ones.  Requests issued and such clicks therefore stay equal in number.
C13_OneUploadPerSubmitClick ==
    [][ /\ SubmitWithFile =>
              uploadsInFlight' = uploadsInFlight \o << [pdf |-> file] >>
        /\ Len(uploadsInFlight') > Len(uploadsInFlight) => SubmitWithFile
        /\ uploadsInFlight' # uploadsInFlight /\ ~SubmitWithFile =>
              \E i \in DOMAIN uploadsInFlight :
                  uploadsInFlight' = Without(uploadsInFlight, i)
        /\ \A i \in DOMAIN uploadsInFlight, o \in UploadOutcomes :
              UploadSettle(i, o) =>
                  uploadsInFlight' = Without(uploadsInFlight, i) ]_vars

\* C13 witness: two clicks issued two requests, for two different files, and
\* neither has been answered.
C13_Witness ==
    /\ Len(uploadsInFlight) = 2
    /\ uploadsInFlight[1].pdf # uploadsInFlight[2].pdf
    /\ ~everUploaded
    /\ errorText = ""
\* C14: the step handling a settled /upload hides the upload loader and the
\* step handling a settled /ask hides the QA loader, whatever the outcome;
\* in every state without a pending upload the upload loader is hidden, and
\* without a pending ask the QA loader is hidden; and, pending requests
\* being eventually settled, a shown loader is eventually hidden.
C14_LoadersHiddenWhenSettled ==
    /\ [][ /\ \A i \in DOMAIN uploadsInFlight, o \in UploadOutcomes :
                UploadSettle(i, o) => loader' = "none"
           /\ \A i \in DOMAIN asksInFlight, o \in AskOutcomes :
                AskSettle(i, o) => qaLoader' = "none" ]_vars
    /\ [](uploadsInFlight = <<>> => loader = "none")
    /\ [](asksInFlight = <<>> => qaLoader = "none")
    /\ (loader = "block") ~> (loader = "none")
    /\ (qaLoader = "block") ~> (qaLoader = "none")

\* C14 witness: an upload and an ask both ended in a transport failure, no
\* request is pending and both loaders are hidden.
C14_Witness ==
    /\ errorText = "[x] Error: Failed to fetch"
    /\ qaErrorText = "[x] Error: Failed to fetch"
    /\ qaError = "block"
    /\ uploadsInFlight = <<>> /\ loader = "none"
    /\ asksInFlight = <<>> /\ qaLoader = "none"
\* Whether html begins with the characters of token.
StartsWith(html, token) ==
    Len(html) >= Len(token) /\ SubSeq(html, 1, Len(token)) = token

Rest(html, n) == SubSeq(html, n + 1, Len(html))

\* The text a browser displays for html that consists of character data,
\* the references &amp; &lt; &gt; and <br> elements; << "?" >> marks html
\* that holds any other '<', '>' or '&', or a raw newline.
RECURSIVE Displayed(_)
Displayed(html) ==
    IF html = <<>> THEN <<>>
    ELSE IF StartsWith(html, << "<", "b", "r", ">" >>)
    THEN << "\n" >> \o Displayed(Rest(html, 4))
    ELSE IF StartsWith(html, << "&", "a", "m", "p", ";" >>)
    THEN << "&" >> \o Displayed(Rest(html, 5))
    ELSE IF StartsWith(html, << "&", "l", "t", ";" >>)
    THEN << "<" >> \o Displayed(Rest(html, 4))
    ELSE IF StartsWith(html, << "&", "g", "t", ";" >>)
    THEN << ">" >> \o Displayed(Rest(html, 4))
    ELSE IF html[1] \in { "<", ">", "&", "\n" }
    THEN << "?" >>
    ELSE << html[1] >> \o Displayed(Rest(html, 1))

Count(s, c) == Cardinality({ k \in DOMAIN s : s[k] = c })

\* C15: the markup of every rendered entry consists of character data, the
\* references &amp; &lt; &gt; and <br> elements only, and displays exactly
\* the entry's text: every '<', '>' and '&' of the text is escaped, and the
\* markup holds one <br> for each newline of the text and no other tag.
C15_RenderedTextIsEscaped ==
    \A k \in DOMAIN chatMessages :
        LET text == chatMessages[k].text
            html == chatMessages[k].html IN
        /\ Displayed(html) = text
        /\ Count(html, "<") = Count(text, "\n")
        /\ Count(html, ">") = Count(text, "\n")
        /\ Count(html, "\n") = 0
        /\ Count(html, "&") =
              Count(text, "<") + Count(text, ">") + Count(text, "&")

\* C15 witness: an entry whose text holds a tag-like sequence, an ampersand
\* and a newline has been rendered.
C15_Witness ==
    /\ Len(chatMessages) = 1
    /\ chatMessages[1].text = << "<", "&", "\n" >>
    /\ chatMessages[1].html =
          << "&", "l", "t", ";", "&", "a", "m", "p", ";", "<", "b", "r", ">" >>
\* A step in which the user picked variant m in the dropdown or on a tab.
VariantPicked(m) == SummaryModeChange(m) \/ TabClick(m)

\* C16: a dropdown change or tab click leaves the pending upload and ask
\* requests, the identifier, the three cached summaries, the selected file
\* and the transcript unchanged; and the selected variant changes only in
\* such a step, to the variant picked.
C16_VariantChangeOnlyRerenders ==
    [][ /\ (\E m \in Modes : VariantPicked(m)) =>
              /\ uploadsInFlight' = uploadsInFlight
              /\ asksInFlight' = asksInFlight
              /\ currentFilename' = currentFilename
              /\ lastBullets' = lastBullets
              /\ lastShort' = lastShort
              /\ lastDetailed' = lastDetailed
              /\ file' = file
              /\ chatMessages' = chatMessages
        /\ summaryMode' # summaryMode =>
              \E m \in Modes : VariantPicked(m) /\ summaryMode' = m ]_vars

\* C16 witness: the detailed variant was picked and is rendered while an
\* upload and an ask are pending and the transcript holds an exchange.
C16_Witness ==
    /\ summaryMode = "detailed"
    /\ summarySection = "block"
    /\ summaryContent = "D1"
    /\ currentFilename = "doc1"
    /\ Len(uploadsInFlight) = 1
    /\ Len(asksInFlight) = 1
    /\ Len(chatMessages) = 3
\* C17 as stated: the identifier and the cached summaries always come from
\* an upload of the file that is selected in the file input.  The cache is
\* written only by the step handling a successful response, so while an
\* accepted file is selected the claim requires the request answered to have
\* carried that file: a response to an upload issued before the selection
\* must not write the cache the selection cleared.
C17_CacheBelongsToSelectedFile ==
    [][ \A i \in DOMAIN uploadsInFlight, o \in UploadOutcomes :
          UploadSettle(i, o) /\ UploadSucceeds(o) /\ Accepted(file) =>
              uploadsInFlight[i].pdf = file ]_vars
\* C18: a selection of a file that is not a PDF or is larger than 20 MiB
\* shows the upload error region with the matching message and changes
\* nothing else the script holds or displays: the identifier, the cached
\* summaries, the displayed file name, the submit control, the summary
\* region, the loader and the chat are as they were before the selection.
C18_RejectedSelectionOnlyShowsError ==
    [][ \A f \in Files :
          Selected(f) /\ ~Accepted(f) =>
            /\ errorDiv' = "block"
            /\ errorText' = (IF f.type # "application/pdf"
                             THEN "[x] Please upload a PDF file"
                             ELSE "[x] File too large (max 20MB)")
            /\ UNCHANGED << currentFilename, lastBullets, lastShort,
                            lastDetailed, fileNameText, fileNameShown,
                            submitBtn, loader, uploadsInFlight, summaryVars,
                            chatVars, alertMsg >> ]_vars

\* C18 witness: after a.pdf was uploaded and a question about it answered,
\* a text file was selected and rejected; identifier, summary, file name
\* and transcript are those of a.pdf.
C18_Witness ==
    /\ file.type = "text/plain"
    /\ errorDiv = "block"
    /\ errorText = "[x] Please upload a PDF file"
    /\ currentFilename = "doc1"
    /\ lastBullets = "B1"
    /\ summarySection = "block"
    /\ fileNameText = "[ok] Selected: a.pdf"
    /\ fileNameShown = "block"
    /\ Len(chatMessages) = 2
    /\ chatMessages[2].role = "assistant"
\* The entries of transcript t with the given role.
EntriesOf(t, role) == { k \in DOMAIN t : t[k].role = role }

\* C19: in every state, every beginning of the transcript holds at least as
\* many user entries as assistant entries, and the user entries not yet
\* answered are at least the pending requests, each of which has its own
\* user entry holding its question; in every step the user entries grow by
\* one exactly when a request is issued and the assistant entries grow by
\* one exactly when a successful response is handled, the new assistant
\* entry coming after the user entry of the request it answers.
C19_AnswersNeverOutnumberQuestions ==
    /\ [](/\ \A n \in 0..Len(chatMessages) :
               Cardinality(EntriesOf(SubSeq(chatMessages, 1, n), "assistant"))
                 <= Cardinality(EntriesOf(SubSeq(chatMessages, 1, n), "user"))
          /\ Cardinality(EntriesOf(chatMessages, "user"))
                 >= Cardinality(EntriesOf(chatMessages, "assistant"))
                      + Len(asksInFlight)
          /\ \A i \in DOMAIN asksInFlight :
               /\ asksInFlight[i].entry \in EntriesOf(chatMessages, "user")
               /\ chatMessages[asksInFlight[i].entry].text
                     = asksInFlight[i].body.question
               /\ \A j \in DOMAIN asksInFlight :
                     i # j => asksInFlight[i].entry # asksInFlight[j].entry)
    /\ [][ LET users  == Cardinality(EntriesOf(chatMessages, "user"))
               users2 == Cardinality(EntriesOf(chatMessages', "user"))
               assts  == Cardinality(EntriesOf(chatMessages, "assistant"))
               assts2 == Cardinality(EntriesOf(chatMessages', "assistant"))
               issued == Len(asksInFlight') > Len(asksInFlight) IN
           /\ users2 = users + (IF issued THEN 1 ELSE 0)
           /\ issued => Len(asksInFlight') = Len(asksInFlight) + 1
           /\ assts2 \in { assts, assts + 1 }
           /\ assts2 = assts + 1 =>
                 \E i \in DOMAIN asksInFlight, o \in AskOutcomes :
                     /\ AskSettle(i, o) /\ AskSucceeds(o)
                     /\ asksInFlight[i].entry < Len(chatMessages')
                     /\ chatMessages'[Len(chatMessages')].role = "assistant"
           /\ Len(asksInFlight') < Len(asksInFlight) =>
                 \A i \in DOMAIN asksInFlight, o \in AskOutcomes :
                     AskSettle(i, o) =>
                         assts2 = assts + (IF AskSucceeds(o) THEN 1 ELSE 0) ]_vars

\* C19 witness: two questions were asked before either was answered, then
\* both answers arrived.
C19_Witness ==
    /\ Len(chatMessages) = 4
    /\ chatMessages[1].role = "user"
    /\ chatMessages[2].role = "user"
    /\ chatMessages[3].role = "assistant"
    /\ chatMessages[4].role = "assistant"
    /\ asksInFlight = <<>>

\* C20 as stated: whenever an ask request is in flight the QA loader is
\* shown.
C20_InFlightShowsQaLoader ==
    asksInFlight # <<>> => qaLoader = "block"

\* C20 amended: the step that issues an ask request shows the QA loader and
\* hides the QA error region; after that the loader is hidden only by the
\* handling of an /ask response, which hides it whether or not another
\* request is pending.
C20_QaLoaderShownUntilAResponse ==
    [][ /\ Len(asksInFlight') > Len(asksInFlight) =>
              qaLoader' = "block" /\ qaError' = "none"
        /\ qaLoader = "block" /\ qaLoader' # "block" =>
              Len(asksInFlight') < Len(asksInFlight)
        /\ Len(asksInFlight') < Len(asksInFlight) => qaLoader' = "none" ]_vars

\* C20 witness: of two pending requests one has been answered; the other is
\* still pending and the QA loader is hidden.
C20_Witness ==
    /\ Len(asksInFlight) = 1
    /\ qaLoader = "none"
    /\ Len(chatMessages) = 3
    /\ chatMessages[3].role = "assistant"
====
